---------------------------- MODULE Spec2Model ----------------------------
(***************************************************************************)
(* A model of the text-to-SQL helper pipeline: the output parsers of       *)
(* utils.py (parse_nested_list, normalize_subquestions, extract_sql,       *)
(* extract_code_block), the fuzzy filter resolver (fuzzy_match_filters)    *)
(* and the two-node sub-question / column-selection graph of agents.py.    *)
(*                                                                         *)
(* Texts are sequences of one-character strings.  Python values are        *)
(* records [k |-> kind, v |-> payload]: a str carries its characters, a    *)
(* list or tuple its elements, an int its digits.                          *)
(***************************************************************************)
EXTENDS Integers, Sequences, FiniteSets, TLC

VARIABLES
    text,        \* parse_nested_list: the raw generator text (text_in)
    result,      \* parse_nested_list: what the call returned, or NotRun
    step,        \* parse_nested_list: the step that produced the return value
    entries,     \* normalize_subquestions: the list handed in
    norm,        \* normalize_subquestions: the list returned, or NotRun
    given,       \* how the filter list was put together: tag, shape, entries
    filters,     \* fuzzy_match_filters: the filter list handed in
    db,          \* the rows of SELECT DISTINCT status FROM orders, in order
    rapid,       \* whether rapidfuzz can be imported
    matched,     \* fuzzy_match_filters: the value returned, Raised, or NotRun
    flat,        \* _flatten_filters_structure: the value returned, or NotRun
    log,         \* the database reads and scorer calls of the call, in order
    segs,        \* how the generator text was put together: prose and blocks
    raw,         \* extract_sql / extract_code_block: the generator text
    lang,        \* extract_code_block: the language asked for
    sqlOut,      \* extract_sql: the text returned, or NotRun
    codeOut,     \* extract_code_block: the text returned, or NotRun
    pc,          \* graph_final: the node to run next, END, or raised
    table_lst,   \* OverallState.table_lst
    reply,       \* what chain_subquestion answered
    parsed,      \* _sq_node: the entries parsed from the answer
    table_extract,   \* OverallState.table_extract
    colReplies,  \* what chain_column_extractor answered, per assignment
    column_extract,  \* OverallState.column_extract
    calls,       \* the generator calls made, in order
    ran,         \* the nodes started in this run, in order, with what each read
    kbPath,      \* config.KNOWLEDGEBASE_PATH (_KB_PATH)
    cwdPath,     \* knowledgebase.pkl in the current working directory
    codePath,    \* knowledgebase.pkl beside agents.py
    fs,          \* the file system: what is at each path
    opened,      \* the paths the loader opened, in order
    kb,          \* loaded_dict, NotRun before the load
    loadErr,     \* the exception the load ended with, or none
    lookups,     \* how many times a stage has subscripted loaded_dict
    last_state,  \* st.session_state.last_state, or that the key is not there
    question,    \* the value of the text input in the latest script run
    clicked,     \* the widget whose click started the latest script run
    invoked,     \* the calls of run_full made, in order
    rendered,    \* what the latest script run rendered from
    reruns       \* how many times the script has run in this session

parseVars == <<text, result, step>>
normVars == <<entries, norm>>
filterVars == <<given, filters, db, rapid, matched, flat, log>>

extractVars == <<segs, raw, lang, sqlOut, codeOut>>

graphVars == <<pc, table_lst, reply, parsed, table_extract, colReplies,
               column_extract, calls, ran>>

loadVars == <<kbPath, cwdPath, codePath, fs, opened, kb, loadErr, lookups>>

uiVars == <<last_state, question, clicked, invoked, rendered, reruns>>

vars == <<parseVars, normVars, filterVars, extractVars, graphVars, loadVars,
          uiVars>>

-----------------------------------------------------------------------------
(* Characters and Python values *)

DQ == "\""
SQ == "'"
\* the backtick character (SANY cannot read it inside a string literal)
BT == "BACKTICK"
SP == " "

Space == {SP}
Digits == {"1"}
Quotes == {DQ, SQ}

PyStr(cs) == [k |-> "str", v |-> cs]
PyList(xs) == [k |-> "list", v |-> xs]
PyTuple(xs) == [k |-> "tuple", v |-> xs]
PyInt(ds) == [k |-> "int", v |-> ds]
PyNone == [k |-> "none", v |-> <<>>]

IsList(x) == x.k = "list"
IsStr(x) == x.k = "str"

\* a marker for a call that has not happened; never a Python value
NotRun == [k |-> "notrun", v |-> <<>>]
\* a marker for an exception that leaves the function
Raised == [k |-> "raised", v |-> <<>>]

IsSeq(x) == x.k \in {"list", "tuple"}

Sub(s, i, j) == IF j < i THEN <<>> ELSE SubSeq(s, i, j)

RECURSIVE SkipWs(_, _)
\* the first position >= i of s that holds no whitespace (Len(s)+1 at the end)
SkipWs(s, i) ==
    IF i <= Len(s) /\ s[i] \in Space THEN SkipWs(s, i + 1) ELSE i

RECURSIVE RSkipWs(_, _)
\* the last position <= i of s that holds no whitespace (0 when there is none)
RSkipWs(s, i) ==
    IF i >= 1 /\ s[i] \in Space THEN RSkipWs(s, i - 1) ELSE i

\* str.strip()
Strip(s) == Sub(s, SkipWs(s, 1), RSkipWs(s, Len(s)))

RECURSIVE Find(_, _, _)
\* the first position >= i of s that holds character c, 0 when there is none
Find(s, c, i) ==
    IF i > Len(s) THEN 0
    ELSE IF s[i] = c THEN i
    ELSE Find(s, c, i + 1)

RECURSIVE Find3(_, _, _)
\* the first position >= i where c occurs three times in a row, 0 when none
Find3(s, c, i) ==
    IF i + 2 > Len(s) THEN 0
    ELSE IF s[i] = c /\ s[i + 1] = c /\ s[i + 2] = c THEN i
    ELSE Find3(s, c, i + 1)

RECURSIVE DigitsEnd(_, _)
\* the position after the run of digits that starts at i
DigitsEnd(s, i) ==
    IF i <= Len(s) /\ s[i] \in Digits THEN DigitsEnd(s, i + 1) ELSE i

BSL == "\\"

RECURSIVE EscapeSQ(_)
\* a backslash before every single quote
EscapeSQ(cs) ==
    IF cs = <<>> THEN <<>>
    ELSE (IF Head(cs) = SQ THEN <<BSL, SQ>> ELSE <<Head(cs)>>) \o EscapeSQ(Tail(cs))

HasChar(cs, c) == \E i \in 1..Len(cs) : cs[i] = c

\* repr() of a str: single quotes, unless it holds a single quote and no
\* double quote
ReprStr(cs) ==
    IF HasChar(cs, SQ) /\ ~HasChar(cs, DQ) THEN <<DQ>> \o cs \o <<DQ>>
    ELSE <<SQ>> \o EscapeSQ(cs) \o <<SQ>>

RECURSIVE Repr(_)
RECURSIVE ReprJoin(_)

\* the reprs of the elements, joined by a comma and a blank
ReprJoin(xs) ==
    IF xs = <<>> THEN <<>>
    ELSE IF Len(xs) = 1 THEN Repr(xs[1])
    ELSE Repr(xs[1]) \o <<",", SP>> \o ReprJoin(Tail(xs))

\* repr(x)
Repr(x) ==
    IF x.k = "str" THEN ReprStr(x.v)
    ELSE IF x.k = "int" THEN x.v
    ELSE IF x.k = "none" THEN <<"N", "o", "n", "e">>
    ELSE IF x.k = "list" THEN <<"[">> \o ReprJoin(x.v) \o <<"]">>
    ELSE IF Len(x.v) = 1 THEN <<"(">> \o Repr(x.v[1]) \o <<",", ")">>
    ELSE <<"(">> \o ReprJoin(x.v) \o <<")">>

\* str(x)
StrOf(x) == IF x.k = "str" THEN x.v ELSE Repr(x)

Fail == [ok |-> FALSE, val |-> NotRun, pos |-> 0]
Ok(v, p) == [ok |-> TRUE, val |-> v, pos |-> p]

-----------------------------------------------------------------------------
(* json.loads, on texts of brackets, commas, quotes, digits, letters, blanks *)

RECURSIVE JsonValue(_, _)
RECURSIVE JsonItems(_, _, _)

\* one JSON value starting at position i (no leading whitespace)
JsonValue(s, i) ==
    IF i > Len(s) THEN Fail
    ELSE IF s[i] = DQ THEN
        LET j == Find(s, DQ, i + 1)
        IN  IF j = 0 THEN Fail ELSE Ok(PyStr(Sub(s, i + 1, j - 1)), j + 1)
    ELSE IF s[i] \in Digits THEN
        LET j == DigitsEnd(s, i) IN Ok(PyInt(Sub(s, i, j - 1)), j)
    ELSE IF s[i] = "[" THEN
        LET j == SkipWs(s, i + 1)
        IN  IF j <= Len(s) /\ s[j] = "]" THEN Ok(PyList(<<>>), j + 1)
            ELSE JsonItems(s, j, <<>>)
    ELSE Fail

\* the elements of an array from position i on, acc the elements read so far
JsonItems(s, i, acc) ==
    LET e == JsonValue(s, i)
    IN  IF ~e.ok THEN Fail
        ELSE LET j == SkipWs(s, e.pos)
             IN  IF j > Len(s) THEN Fail
                 ELSE IF s[j] = "]" THEN Ok(PyList(Append(acc, e.val)), j + 1)
                 ELSE IF s[j] = "," THEN
                     JsonItems(s, SkipWs(s, j + 1), Append(acc, e.val))
                 ELSE Fail

\* json.loads(s): the value, or a failure (JSONDecodeError) on anything else
JsonLoads(s) ==
    LET r == JsonValue(s, SkipWs(s, 1))
    IN  IF r.ok /\ SkipWs(s, r.pos) = Len(s) + 1 THEN r ELSE Fail

-----------------------------------------------------------------------------
(* ast.literal_eval, on the same texts *)

\* one string literal at position i: single-, double- or triple-quoted
PyStringLit(s, i) ==
    LET q == s[i]
    IN  IF i + 2 <= Len(s) /\ s[i + 1] = q /\ s[i + 2] = q THEN
            LET j == Find3(s, q, i + 3)
            IN  IF j = 0 THEN Fail ELSE Ok(Sub(s, i + 3, j - 1), j + 3)
        ELSE
            LET j == Find(s, q, i + 1)
            IN  IF j = 0 THEN Fail ELSE Ok(Sub(s, i + 1, j - 1), j + 1)

RECURSIVE PyStrings(_, _, _)
\* adjacent string literals are one constant (implicit concatenation)
PyStrings(s, i, acc) ==
    LET r == PyStringLit(s, i)
    IN  IF ~r.ok THEN Fail
        ELSE LET j == SkipWs(s, r.pos)
             IN  IF j <= Len(s) /\ s[j] \in Quotes
                 THEN PyStrings(s, j, acc \o r.val)
                 ELSE Ok(PyStr(acc \o r.val), r.pos)

RECURSIVE PyElem(_, _)
RECURSIVE PyItems(_, _, _, _)

\* one literal at position i: a string constant, an int, or a list display.
\* A name, or any other character, makes literal_eval raise.
PyElem(s, i) ==
    IF i > Len(s) THEN Fail
    ELSE IF s[i] \in Quotes THEN PyStrings(s, i, <<>>)
    ELSE IF s[i] \in Digits THEN
        LET j == DigitsEnd(s, i) IN Ok(PyInt(Sub(s, i, j - 1)), j)
    ELSE IF s[i] = "[" THEN PyItems(s, SkipWs(s, i + 1), <<>>, "]")
    ELSE Fail

\* the elements from position i on, up to the closer (a closing bracket for
\* a list display, the end of the text for a bare tuple); a trailing comma
\* is allowed
PyItems(s, i, acc, closer) ==
    IF closer = "]" /\ i <= Len(s) /\ s[i] = "]" THEN Ok(PyList(acc), i + 1)
    ELSE IF closer = "" /\ i > Len(s) THEN Ok(PyTuple(acc), i)
    ELSE
        LET e == PyElem(s, i)
        IN  IF ~e.ok THEN Fail
            ELSE LET j == SkipWs(s, e.pos)
                 IN  IF closer = "]" /\ j <= Len(s) /\ s[j] = "]"
                         THEN Ok(PyList(Append(acc, e.val)), j + 1)
                     ELSE IF closer = "" /\ j > Len(s)
                         THEN Ok(PyTuple(Append(acc, e.val)), j)
                     ELSE IF j <= Len(s) /\ s[j] = ","
                         THEN PyItems(s, SkipWs(s, j + 1), Append(acc, e.val), closer)
                     ELSE Fail

\* ast.literal_eval(s): one literal, or literals separated by commas (a tuple)
LiteralEval(s) ==
    LET i == SkipWs(s, 1)
        e == PyElem(s, i)
    IN  IF ~e.ok THEN Fail
        ELSE LET j == SkipWs(s, e.pos)
             IN  IF j > Len(s) THEN e
                 ELSE IF s[j] = ","
                     THEN PyItems(s, SkipWs(s, j + 1), <<e.val>>, "")
                 ELSE Fail

-----------------------------------------------------------------------------
(* re.search with the bracket pattern of parse_nested_list (DOTALL): an    *)
(* opening bracket, blanks, a bracketed lazy body, blanks, any number of   *)
(* groups [comma, blanks, bracketed lazy body, blanks], a closing bracket. *)

RECURSIVE ScanTail(_, _)
RECURSIVE ScanClose(_, _)

\* after an inner closing bracket, from position p: blanks, then either one
\* more group (comma, blanks, opening bracket, lazy body, closing bracket) or
\* the outer closing bracket.  The position of the outer bracket, 0 on failure.
ScanTail(s, p) ==
    LET j == SkipWs(s, p)
    IN  IF j > Len(s) THEN 0
        ELSE IF s[j] = "," THEN
            LET q == SkipWs(s, j + 1)
            IN  IF q <= Len(s) /\ s[q] = "[" THEN ScanClose(s, q + 1) ELSE 0
        ELSE IF s[j] = "]" THEN j
        ELSE 0

\* the lazy body: the first closing bracket at or after j from which the rest
\* of the pattern matches
ScanClose(s, j) ==
    IF j > Len(s) THEN 0
    ELSE IF s[j] = "]" THEN
        LET r == ScanTail(s, j + 1)
        IN  IF r # 0 THEN r ELSE ScanClose(s, j + 1)
    ELSE ScanClose(s, j + 1)

\* the end of the match that starts at position i, 0 when there is none
ScanAt(s, i) ==
    IF i <= Len(s) /\ s[i] = "[" THEN
        LET q == SkipWs(s, i + 1)
        IN  IF q <= Len(s) /\ s[q] = "[" THEN ScanClose(s, q + 1) ELSE 0
    ELSE 0

RECURSIVE ScanFrom(_, _)
\* the leftmost match at or after position i: m.group(0), or no match
ScanFrom(s, i) ==
    IF i > Len(s) THEN [found |-> FALSE, group |-> <<>>]
    ELSE LET e == ScanAt(s, i)
         IN  IF e # 0 THEN [found |-> TRUE, group |-> Sub(s, i, e)]
             ELSE ScanFrom(s, i + 1)

BracketScan(s) == ScanFrom(s, 1)

-----------------------------------------------------------------------------
(* utils.parse_nested_list *)

Returned(v, st) == [val |-> v, step |-> st]

\* a variant without the isinstance check
ListOrEmptyUnchecked(obj) == obj

\* return obj if isinstance(obj, list) else []
ListOrEmpty(obj) == IF IsList(obj) THEN obj ELSE PyList(<<>>)

\* the bracket-scan fallback (lines 42-50)
ScanStep(s) ==
    LET m == BracketScan(s)
    IN  IF m.found THEN
            LET l == LiteralEval(m.group)
            IN  IF l.ok THEN Returned(ListOrEmpty(l.val), "scan")
                ELSE Returned(PyList(<<>>), "scan_except")
        ELSE Returned(PyList(<<>>), "no_match")

\* a variant that hands a successful non-list literal value over to the scan
LiteralStepHandsOver(s) ==
    LET l == LiteralEval(s)
    IN  IF l.ok /\ IsList(l.val) THEN Returned(l.val, "literal") ELSE ScanStep(s)

\* the literal step (lines 36-41)
LiteralStep(s) ==
    LET l == LiteralEval(s)
    IN  IF l.ok THEN Returned(ListOrEmpty(l.val), "literal") ELSE ScanStep(s)

\* the whole function: the value returned and the step that returned it
ParseNestedList(t) ==
    IF t = <<>> THEN Returned(PyList(<<>>), "empty")
    ELSE LET s == Strip(t)
             j == JsonLoads(s)
         IN  IF j.ok THEN Returned(ListOrEmpty(j.val), "json")
             ELSE LiteralStep(s)

-----------------------------------------------------------------------------
(* Specification SpecParse: parse_nested_list on every short text *)

MaxTextLen == 4

ParseChars == {"[", "]", ",", DQ, SQ, "x", "1", SP}

SeqsUpTo(S, n) == UNION {[1..m -> S] : m \in 0..n}

\* what the generator puts around its answer: nothing, quotes, a prose
\* prefix, a code fence
Wraps ==
    { <<<<>>, <<>>>>,
      <<<<DQ>>, <<DQ>>>>,
      <<<<"x", SP>>, <<>>>>,
      <<<<BT, BT, BT>>, <<BT, BT, BT>>>> }

ParseTexts ==
    {w[1] \o c \o w[2] : w \in Wraps, c \in SeqsUpTo(ParseChars, MaxTextLen)}

IdleParse == text = <<>> /\ result = NotRun /\ step = "idle"
IdleNorm == entries = NotRun /\ norm = NotRun
IdleExtract ==
    /\ segs = <<>> /\ raw = <<>> /\ lang = <<>>
    /\ sqlOut = NotRun /\ codeOut = NotRun
IdleGraph ==
    /\ pc = "idle" /\ table_lst = <<>> /\ reply = <<>> /\ parsed = NotRun
    /\ table_extract = <<>> /\ colReplies = <<>> /\ column_extract = <<>>
    /\ calls = <<>> /\ ran = <<>>
IdleLoad ==
    /\ kbPath = "" /\ cwdPath = "" /\ codePath = "" /\ fs = <<>>
    /\ opened = <<>> /\ kb = NotRun /\ loadErr = NotRun /\ lookups = 0
IdleUi ==
    /\ last_state = NotRun /\ question = <<>> /\ clicked = "idle"
    /\ invoked = <<>> /\ rendered = NotRun /\ reruns = 0
IdleFilter ==
    /\ given = NotRun /\ filters = NotRun /\ db = <<>> /\ rapid = FALSE
    /\ matched = NotRun /\ flat = NotRun /\ log = <<>>

InitParse ==
    /\ text \in ParseTexts
    /\ result = NotRun
    /\ step = "idle"
    /\ IdleNorm /\ IdleFilter /\ IdleExtract /\ IdleGraph /\ IdleLoad /\ IdleUi

CallParse ==
    /\ result = NotRun
    /\ \E r \in {ParseNestedList(text)} :
        /\ result' = r.val
        /\ step' = r.step
    /\ UNCHANGED <<text, normVars, filterVars, extractVars, graphVars, loadVars, uiVars>>

NextParse == CallParse

SpecParse == InitParse /\ [][NextParse]_vars

-----------------------------------------------------------------------------
(* Claims about parse_nested_list, checked under SpecParse *)

\* C1: for every raw generator text, parse_nested_list finishes without
\* raising and returns a list (possibly empty).
C1_ParseReturnsList ==
    result # NotRun => (result # Raised /\ IsList(result))

\* C1 witness: a prose-prefixed text from which the bracket scan recovered a
\* non-empty list.
C1_Witness ==
    /\ step = "scan"
    /\ IsList(result)
    /\ Len(result.v) > 0
    /\ Len(text) > 0 /\ text[1] = "x"

\* What each step yields on the stripped text, computed apart from the
\* function: the JSON value, the literal value, the literal value of the
\* scanned substring.
JsonOf(t) == JsonLoads(Strip(t))
LiteralOf(t) == LiteralEval(Strip(t))
ScannedOf(t) ==
    LET m == BracketScan(Strip(t))
    IN  IF m.found THEN LiteralEval(m.group) ELSE Fail
YieldsList(r) == r.ok /\ IsList(r.val)

\* C8 as stated: the value of the first step that yields a sequence is
\* returned (a step that yields a non-sequence hands over to the next one),
\* and the empty list only when no step yields a sequence.
C8_FirstSequenceWins ==
    result # NotRun =>
        result = IF YieldsList(JsonOf(text)) THEN JsonOf(text).val
                 ELSE IF YieldsList(LiteralOf(text)) THEN LiteralOf(text).val
                 ELSE IF YieldsList(ScannedOf(text)) THEN ScannedOf(text).val
                 ELSE PyList(<<>>)

\* C8 amended: the steps are tried in the order JSON, literal, bracket scan,
\* and the first step that parses without error ends the call: its value is
\* returned when it is a list, the empty list when it is not.  A step hands
\* over to the next one only when it fails to parse.
C8_FirstParseEnds ==
    (result # NotRun /\ text # <<>>) =>
        LET a == JsonOf(text)
            b == LiteralOf(text)
            c == ScannedOf(text)
            orEmpty(r) == IF IsList(r.val) THEN r.val ELSE PyList(<<>>)
        IN  /\ a.ok => step = "json" /\ result = orEmpty(a)
            /\ (~a.ok /\ b.ok) => step = "literal" /\ result = orEmpty(b)
            /\ (~a.ok /\ ~b.ok /\ c.ok) => step = "scan" /\ result = orEmpty(c)
            /\ (~a.ok /\ ~b.ok /\ ~c.ok) =>
                   step \in {"scan_except", "no_match"} /\ result = PyList(<<>>)

\* C8 witness: the text is a JSON string (not a list) that holds a bracketed
\* list; the call ended at the JSON step with the empty list.
C8_Witness ==
    /\ step = "json"
    /\ result = PyList(<<>>)
    /\ JsonOf(text).ok /\ ~IsList(JsonOf(text).val)
    /\ YieldsList(ScannedOf(text))

-----------------------------------------------------------------------------
(* utils.normalize_subquestions *)

\* a variant that keeps a pair whatever its fields hold
KeepPairUnchecked(subq, table) == TRUE

\* the test of line 59: both fields are non-empty
KeepPair(subq, table) == subq # <<>> /\ table # <<>>

RECURSIVE NormLoop(_, _)
\* the for loop over the entries, acc is the list norm built so far
NormLoop(es, acc) ==
    IF es = <<>> THEN acc
    ELSE LET e == Head(es)
         IN  IF IsList(e) /\ Len(e.v) >= 2 THEN
                 LET subq == Strip(StrOf(e.v[1]))
                     table == Strip(StrOf(e.v[2]))
                 IN  IF KeepPair(subq, table)
                     THEN NormLoop(Tail(es),
                                   Append(acc, PyList(<<PyStr(subq), PyStr(table)>>)))
                     ELSE NormLoop(Tail(es), acc)
             ELSE NormLoop(Tail(es), acc)

\* a variant of normalize_subquestions that builds the list back to front
NormalizeReversed(l) ==
    LET n == NormLoop(l.v, <<>>)
    IN  PyList([i \in 1..Len(n) |-> n[Len(n) + 1 - i]])

NormalizeSubquestions(l) == PyList(NormLoop(l.v, <<>>))

-----------------------------------------------------------------------------
(* Specification SpecNorm: normalize_subquestions on lists of entries *)

MaxEntries == 3

Txt_q == <<"q">>
Txt_r == <<"r">>
Txt_t == <<"t">>
Txt_padded == <<SP, "q", SP>>
Txt_blank == <<SP, SP>>

\* the entries a parsed generator answer can hold
EntryPool ==
    { PyStr(Txt_q),
      PyInt(<<"1">>),
      PyList(<<>>),
      PyList(<<PyStr(Txt_q)>>),
      PyList(<<PyStr(Txt_padded), PyStr(Txt_t)>>),
      PyList(<<PyStr(Txt_q), PyStr(Txt_blank)>>),
      PyList(<<PyStr(<<>>), PyStr(Txt_t)>>),
      PyList(<<PyStr(Txt_r), PyStr(Txt_t), PyStr(Txt_q)>>),
      PyList(<<PyStr(Txt_r), PyStr(Txt_t)>>),
      PyTuple(<<PyStr(Txt_q), PyStr(Txt_t)>>),
      PyList(<<PyList(<<PyStr(Txt_q)>>), PyStr(Txt_t)>>),
      PyList(<<PyNone, PyInt(<<"1">>)>>) }

InitNorm ==
    /\ entries \in {PyList(es) : es \in SeqsUpTo(EntryPool, MaxEntries)}
    /\ norm = NotRun
    /\ IdleParse /\ IdleFilter /\ IdleExtract /\ IdleGraph /\ IdleLoad /\ IdleUi

CallNormalize ==
    /\ norm = NotRun
    /\ norm' = NormalizeSubquestions(entries)
    /\ UNCHANGED <<entries, parseVars, filterVars, extractVars, graphVars, loadVars, uiVars>>

NextNorm == CallNormalize

SpecNorm == InitNorm /\ [][NextNorm]_vars

\* C2: every entry returned by normalize_subquestions is a pair of strings,
\* both non-empty after trimming, and comes from an input entry that is a
\* sequence of length >= 2 with both fields non-empty after trimming; no
\* other input entry leaves a trace in the result.
C2_PairsNonEmpty ==
    norm # NotRun =>
        LET good(e) == /\ IsSeq(e) /\ Len(e.v) >= 2
                       /\ Strip(StrOf(e.v[1])) # <<>>
                       /\ Strip(StrOf(e.v[2])) # <<>>
            pairOf(e) == PyList(<<PyStr(Strip(StrOf(e.v[1]))),
                                  PyStr(Strip(StrOf(e.v[2])))>>)
            goodIdx == {i \in 1..Len(entries.v) : good(entries.v[i])}
        IN  /\ IsList(norm)
            /\ Len(norm.v) <= Cardinality(goodIdx)
            /\ \A k \in 1..Len(norm.v) :
                   /\ IsList(norm.v[k]) /\ Len(norm.v[k].v) = 2
                   /\ \A f \in 1..2 :
                          /\ IsStr(norm.v[k].v[f])
                          /\ Strip(norm.v[k].v[f].v) # <<>>
                   /\ \E i \in goodIdx : norm.v[k] = pairOf(entries.v[i])

\* C2 witness: a padded pair survived (trimmed) while a pair with a blank
\* field and an entry that is no list were dropped.
C2_Witness ==
    /\ norm # NotRun
    /\ Len(norm.v) = 1
    /\ norm.v[1] = PyList(<<PyStr(Txt_q), PyStr(Txt_t)>>)
    /\ \E i \in 1..Len(entries.v) :
           entries.v[i] = PyList(<<PyStr(Txt_padded), PyStr(Txt_t)>>)
    /\ \E i \in 1..Len(entries.v) :
           entries.v[i] = PyList(<<PyStr(Txt_q), PyStr(Txt_blank)>>)
    /\ \E i \in 1..Len(entries.v) : ~IsSeq(entries.v[i])

-----------------------------------------------------------------------------
(* Characters as the regular expressions and the scorers see them *)

LowerSeq ==
    <<"a", "b", "c", "d", "e", "f", "g", "h", "i", "j", "k", "l", "m",
      "n", "o", "p", "q", "r", "s", "t", "u", "v", "w", "x", "y", "z">>
UpperSeq ==
    <<"A", "B", "C", "D", "E", "F", "G", "H", "I", "J", "K", "L", "M",
      "N", "O", "P", "Q", "R", "S", "T", "U", "V", "W", "X", "Y", "Z">>
DigitSeq == <<"0", "1", "2", "3", "4", "5", "6", "7", "8", "9">>

Range(f) == {f[i] : i \in DOMAIN f}
Letters == Range(LowerSeq) \cup Range(UpperSeq)
AllDigits == Range(DigitSeq)
\* the class \w
WordChars == Letters \cup AllDigits \cup {"_"}

\* the characters of the model in code-point order
CodeOrder ==
    <<SP, DQ, SQ, ",", "-">> \o DigitSeq \o <<"<", "=", ">">> \o UpperSeq
    \o <<"[", BSL, "]", "_", BT>> \o LowerSeq

Rank(c) == CHOOSE i \in DOMAIN CodeOrder : CodeOrder[i] = c

ToLower(c) ==
    IF c \in Range(UpperSeq)
    THEN LowerSeq[CHOOSE i \in DOMAIN UpperSeq : UpperSeq[i] = c]
    ELSE c

\* str.casefold() and the folding of re.I, on these characters
Fold(cs) == [i \in DOMAIN cs |-> ToLower(cs[i])]

\* whether the word w occurs in cs at position i
OccursAt(cs, w, i) ==
    /\ i >= 1 /\ i + Len(w) - 1 <= Len(cs)
    /\ \A k \in 1..Len(w) : cs[i + k - 1] = w[k]

Contains(cs, w) == \E i \in 1..Len(cs) : OccursAt(cs, w, i)

W_between == <<"b", "e", "t", "w", "e", "e", "n">>
W_before == <<"b", "e", "f", "o", "r", "e">>
W_after == <<"a", "f", "t", "e", "r">>

-----------------------------------------------------------------------------
(* The predicate classification of fuzzy_match_filters (lines 162-164) *)

\* re.search of [A-Za-z]
HasAlpha(p) == \E i \in 1..Len(p) : p[i] \in Letters

\* \bbetween\b under re.I: the word with a boundary on both sides
HasBetweenWord(p) ==
    \E i \in 1..Len(p) :
        /\ OccursAt(Fold(p), W_between, i)
        /\ (i = 1 \/ p[i - 1] \notin WordChars)
        /\ (i + 7 > Len(p) \/ p[i + 7] \notin WordChars)

\* the alternatives <=, >=, <, > : any of them holds a < or a >
HasComparison(p) == HasChar(p, "<") \/ HasChar(p, ">")

\* \d{4}-\d{2}-\d{2}
HasIsoDate(p) ==
    \E i \in 1..Len(p) :
        /\ i + 9 <= Len(p)
        /\ \A k \in {0, 1, 2, 3, 5, 6, 8, 9} : p[i + k] \in AllDigits
        /\ p[i + 4] = "-" /\ p[i + 7] = "-"

\* a variant that asks for before and after as whole words
HasBeforeAfterWord(p) ==
    \E w \in {W_before, W_after} : \E i \in 1..Len(p) :
        /\ OccursAt(Fold(p), w, i)
        /\ (i = 1 \/ p[i - 1] \notin WordChars)
        /\ (i + Len(w) > Len(p) \/ p[i + Len(w)] \notin WordChars)

\* the alternatives before, after under re.I: no word boundary is asked for
HasBeforeAfter(p) == Contains(Fold(p), W_before) \/ Contains(Fold(p), W_after)

\* the second pattern of line 163
IsRangeLike(p) ==
    HasBetweenWord(p) \/ HasComparison(p) \/ HasBeforeAfter(p) \/ HasIsoDate(p)

\* a variant that sends every value to the database
ReadsEveryValue(p) == TRUE

\* the condition of the if of line 162: a textual equality-like predicate
IsCategorical(p) == HasAlpha(p) /\ ~IsRangeLike(p)

-----------------------------------------------------------------------------
(* rapidfuzz: fuzz.token_set_ratio and process.extractOne (line 112).     *)
(* A score is a pair <<n, d>> that stands for 100 * n / d.                 *)

RECURSIVE SplitFrom(_, _, _, _)
\* str.split(): the maximal runs of non-blank characters
SplitFrom(cs, i, cur, acc) ==
    IF i > Len(cs) THEN (IF cur = <<>> THEN acc ELSE Append(acc, cur))
    ELSE IF cs[i] \in Space
        THEN SplitFrom(cs, i + 1, <<>>, IF cur = <<>> THEN acc ELSE Append(acc, cur))
    ELSE SplitFrom(cs, i + 1, Append(cur, cs[i]), acc)

TokenSet(cs) == Range(SplitFrom(cs, 1, <<>>, <<>>))

RECURSIVE LexLeq(_, _)
\* the order of str on two tokens
LexLeq(a, b) ==
    IF a = <<>> THEN TRUE
    ELSE IF b = <<>> THEN FALSE
    ELSE IF Rank(a[1]) # Rank(b[1]) THEN Rank(a[1]) < Rank(b[1])
    ELSE LexLeq(Tail(a), Tail(b))

RECURSIVE SortedJoin(_)
\* the tokens of the set in sorted order, joined by blanks
SortedJoin(S) ==
    IF S = {} THEN <<>>
    ELSE LET m == CHOOSE x \in S : \A y \in S : LexLeq(x, y)
         IN  IF S = {m} THEN m ELSE m \o <<SP>> \o SortedJoin(S \ {m})

RECURSIVE Lcs(_, _)
\* the length of the longest common subsequence
Lcs(a, b) ==
    IF a = <<>> \/ b = <<>> THEN 0
    ELSE IF Head(a) = Head(b) THEN 1 + Lcs(Tail(a), Tail(b))
    ELSE LET x == Lcs(Tail(a), b)
             y == Lcs(a, Tail(b))
         IN  IF x >= y THEN x ELSE y

ScoreLess(x, y) == x[1] * y[2] < y[1] * x[2]
ScoreMax(x, y) == IF ScoreLess(x, y) THEN y ELSE x
Score100 == <<1, 1>>
Score0 == <<0, 1>>

\* 100 - 100 * dist / lensum
NormDistance(dist, lensum) ==
    IF lensum = 0 THEN Score100 ELSE <<lensum - dist, lensum>>

\* fuzz.token_set_ratio(s1, s2), no processor
TokenSetRatio(s1, s2) ==
    LET ta == TokenSet(s1)
        tb == TokenSet(s2)
        sect == ta \cap tb
        ab == SortedJoin(ta \ tb)
        ba == SortedJoin(tb \ ta)
        sectLen == Len(SortedJoin(sect))
        gap == IF sectLen # 0 THEN 1 ELSE 0
        sectAbLen == sectLen + gap + Len(ab)
        sectBaLen == sectLen + gap + Len(ba)
        dist == Len(ab) + Len(ba) - 2 * Lcs(ab, ba)
        first == NormDistance(dist, sectAbLen + sectBaLen)
    IN  IF ta = {} \/ tb = {} THEN Score0
        ELSE IF sect # {} /\ (ta \ tb = {} \/ tb \ ta = {}) THEN Score100
        ELSE IF sectLen = 0 THEN first
        ELSE ScoreMax(first,
                 ScoreMax(NormDistance(gap + Len(ab), sectLen + sectAbLen),
                          NormDistance(gap + Len(ba), sectLen + sectBaLen)))

RECURSIVE ExtractOneFrom(_, _, _, _)
\* process.extractOne: the first choice with the highest score
ExtractOneFrom(query, choices, i, best) ==
    IF i > Len(choices) THEN choices[best]
    ELSE IF ScoreLess(TokenSetRatio(query, choices[best]),
                      TokenSetRatio(query, choices[i]))
        THEN ExtractOneFrom(query, choices, i + 1, i)
    ELSE ExtractOneFrom(query, choices, i + 1, best)

ExtractOne(query, choices) == ExtractOneFrom(query, choices, 2, 1)

-----------------------------------------------------------------------------
(* utils._get_values, _best_fuzzy_match, _flatten_filters_structure,       *)
(* fuzzy_match_filters                                                     *)

T_yes == <<"y", "e", "s">>
T_no == <<"n", "o">>
T_orders == <<"o", "r", "d", "e", "r", "s">>
T_status == <<"s", "t", "a", "t", "u", "s">>

IsStrOf(x, cs) == IsStr(x) /\ x.v = cs

\* a variant without dropna: NULL becomes the text None
KeepNaStr(rows) == [i \in 1..Len(rows) |-> StrOf(rows[i])]

RECURSIVE DropNaStr(_)
\* df[v].dropna().astype(str).tolist()
DropNaStr(rows) ==
    IF rows = <<>> THEN <<>>
    ELSE IF Head(rows).k = "none" THEN DropNaStr(Tail(rows))
    ELSE <<StrOf(Head(rows))>> \o DropNaStr(Tail(rows))

\* _get_values(table, column): the one column the database of the model
\* holds is orders.status; any other read makes the database raise
GetValues(table, column, rows) ==
    IF IsStrOf(table, T_orders) /\ IsStrOf(column, T_status)
    THEN [ok |-> TRUE, vals |-> DropNaStr(rows)]
    ELSE [ok |-> FALSE, vals |-> <<>>]

\* the fallback of lines 116-120: the first choice equal under casefold,
\* else the input
FallbackMatch(input, choices) ==
    IF \E i \in 1..Len(choices) : Fold(choices[i]) = Fold(input)
    THEN choices[CHOOSE i \in 1..Len(choices) :
                    /\ Fold(choices[i]) = Fold(input)
                    /\ \A j \in 1..(i - 1) : Fold(choices[j]) # Fold(input)]
    ELSE input

\* _best_fuzzy_match(input_value, choices)[0], choices not empty
BestFuzzyMatch(input, choices, haveRapid) ==
    IF haveRapid THEN ExtractOne(input, choices)
    ELSE FallbackMatch(input, choices)

\* a variant that flattens without asking that every element is a list
FlattenFiltersUnchecked(f) ==
    IF /\ IsList(f) /\ f.v # <<>>
       /\ IsStrOf(f.v[1], T_yes)
       /\ Len(f.v) = 2
       /\ IsList(f.v[2]) /\ f.v[2].v # <<>>
    THEN PyList(<<PyStr(T_yes)>> \o f.v[2].v)
    ELSE f

\* _flatten_filters_structure(filters)
FlattenFiltersStructure(f) ==
    IF /\ IsList(f) /\ f.v # <<>>
       /\ IsStrOf(f.v[1], T_yes)
       /\ Len(f.v) = 2
       /\ IsList(f.v[2]) /\ f.v[2].v # <<>>
       /\ \A i \in 1..Len(f.v[2].v) : IsList(f.v[2].v[i])
    THEN PyList(<<PyStr(T_yes)>> \o f.v[2].v)
    ELSE f

Outcome(o, l) == [out |-> o, log |-> l]

\* a variant that writes the third field back in place of the table
OutRowSwapped(table, column, value) == PyList(<<value, column, table>>)

\* the row appended to out (lines 167 and 169)
OutRow(table, column, value) == PyList(<<table, column, value>>)

\* a variant that asks for exactly three fields
IsTriple(t) == IsList(t) /\ Len(t.v) = 3

\* the entries the loop does not skip (line 158)
IsPredicate(t) == IsList(t) /\ Len(t.v) >= 3

RECURSIVE MatchLoop(_, _, _, _, _)
\* the for loop of lines 157-169 over the entries es; out and lg are the
\* output list and the log built so far
MatchLoop(es, out, lg, rows, haveRapid) ==
    IF es = <<>> THEN Outcome(PyList(out), lg)
    ELSE
        LET t == Head(es)
        IN  IF ~IsPredicate(t)
            THEN MatchLoop(Tail(es), out, lg, rows, haveRapid)
            ELSE
                LET table == t.v[1]
                    column == t.v[2]
                    predicate == Strip(StrOf(t.v[3]))
                IN  IF IsCategorical(predicate) THEN
                        LET g == GetValues(table, column, rows)
                            lgRead == Append(lg, <<"read", table, column>>)
                        IN  IF ~g.ok THEN Outcome(Raised, lgRead)
                            ELSE IF g.vals = <<>> THEN
                                MatchLoop(Tail(es),
                                    Append(out, OutRow(table, column, PyStr(predicate))),
                                    lgRead, rows, haveRapid)
                            ELSE
                                MatchLoop(Tail(es),
                                    Append(out, OutRow(table, column,
                                        PyStr(BestFuzzyMatch(predicate, g.vals, haveRapid)))),
                                    Append(lgRead, <<"score", PyStr(predicate), PyNone>>),
                                    rows, haveRapid)
                    ELSE
                        MatchLoop(Tail(es),
                            Append(out, OutRow(table, column, PyStr(predicate))),
                            lg, rows, haveRapid)

\* fuzzy_match_filters(filters): the value returned (or Raised) and the log
FuzzyMatchFilters(f, rows, haveRapid) ==
    IF ~IsList(f) \/ f.v = <<>> \/ IsStrOf(f.v[1], T_no)
    THEN Outcome(f, <<>>)
    ELSE MatchLoop(Tail(FlattenFiltersStructure(f).v), <<PyStr(T_yes)>>, <<>>,
                   rows, haveRapid)

-----------------------------------------------------------------------------
(* Specifications SpecResolve and SpecValues: fuzzy_match_filters on       *)
(* filter lists of every shape, and on single predicates of every value    *)

MaxPreds == 2
MaxChoices == 2
MaxWords == 2

T_YES == <<"Y", "E", "S">>
T_nope == <<"n", "o", "p", "e">>
T_junk == <<"j", "u", "n", "k">>
V_a == <<"a">>
V_A == <<"A">>
V_ab == <<"a", SP, "b">>
V_ge5 == <<">", "=", SP, "5">>
V_bPadded == <<SP, "b", SP>>
V_date == <<"2", "0", "1", "7", "-", "0", "1", "-", "0", "1">>

Pred(t, c, v) == PyList(<<PyStr(t), PyStr(c), v>>)

\* the entries a filter list can hold after its tag
PredPool ==
    { Pred(T_orders, T_status, PyStr(V_a)),
      Pred(T_orders, T_status, PyStr(V_ge5)),
      Pred(T_orders, T_status, PyStr(V_bPadded)),
      Pred(T_orders, T_status, PyInt(<<"5">>)),
      Pred(T_nope, T_status, PyStr(V_a)),
      PyList(<<PyStr(T_orders), PyStr(T_status)>>),
      PyList(<<PyStr(T_orders), PyStr(T_status), PyStr(V_a), PyStr(V_A)>>),
      PyStr(T_junk) }

\* a predicate as the generator is told to write it: three scalar fields
WellFormed(p) ==
    /\ IsList(p) /\ Len(p.v) = 3
    /\ IsStr(p.v[1]) /\ IsStr(p.v[2]) /\ ~IsSeq(p.v[3])

Given(tag, shape, ps) == [tag |-> tag, shape |-> shape, preds |-> ps]

\* the filter list the generator wrote
Build(g) ==
    IF g.shape = "flat" THEN PyList(<<PyStr(g.tag)>> \o g.preds)
    ELSE IF g.shape = "nested" THEN PyList(<<PyStr(g.tag), PyList(g.preds)>>)
    ELSE IF g.shape = "empty" THEN PyList(<<>>)
    ELSE PyNone

GivenShapes ==
    {Given(tag, shape, ps) : tag \in {T_yes, T_no, T_YES},
                             shape \in {"flat", "nested"},
                             ps \in SeqsUpTo(PredPool, MaxPreds)}
    \cup {Given(T_no, "empty", <<>>), Given(T_no, "none", <<>>)}

\* the rows SELECT DISTINCT can return: values and NULL, no row twice
RowPool == {PyStr(V_a), PyStr(V_A), PyStr(V_ab), PyNone}

DistinctRows ==
    {r \in SeqsUpTo(RowPool, MaxChoices) :
        \A i, j \in 1..Len(r) : i # j => r[i] # r[j]}

DbSmall == {<<>>, <<PyNone>>, <<PyStr(V_a)>>, <<PyStr(V_ab), PyStr(V_a)>>}

InitResolve ==
    /\ given \in GivenShapes
    /\ filters = Build(given)
    /\ db \in DbSmall
    /\ rapid \in BOOLEAN
    /\ matched = NotRun /\ flat = NotRun /\ log = <<>>
    /\ IdleParse /\ IdleNorm /\ IdleExtract /\ IdleGraph /\ IdleLoad /\ IdleUi

\* the words predicate values are made of
Vocabulary ==
    { V_a, V_A, <<SP>>, <<"5">>, <<"<">>, <<">", "=">>,
      W_after, W_before, W_between, V_date }

RECURSIVE Concat(_)
Concat(ws) == IF ws = <<>> THEN <<>> ELSE Head(ws) \o Concat(Tail(ws))

PredValues == {Concat(ws) : ws \in SeqsUpTo(Vocabulary, MaxWords)}

InitValues ==
    /\ given \in {Given(T_yes, "flat", <<Pred(T_orders, T_status, PyStr(v))>>) :
                     v \in PredValues}
    /\ filters = Build(given)
    /\ db \in DistinctRows
    /\ rapid \in BOOLEAN
    /\ matched = NotRun /\ flat = NotRun /\ log = <<>>
    /\ IdleParse /\ IdleNorm /\ IdleExtract /\ IdleGraph /\ IdleLoad /\ IdleUi

CallResolve ==
    /\ filters # NotRun
    /\ matched = NotRun
    /\ \E r \in {FuzzyMatchFilters(filters, db, rapid)} :
        /\ matched' = r.out
        /\ log' = r.log
    /\ UNCHANGED <<given, filters, db, rapid, flat,
                   parseVars, normVars, extractVars, graphVars, loadVars, uiVars>>

CallFlatten ==
    /\ filters # NotRun
    /\ flat = NotRun
    /\ flat' = FlattenFiltersStructure(filters)
    /\ UNCHANGED <<given, filters, db, rapid, matched, log,
                   parseVars, normVars, extractVars, graphVars, loadVars, uiVars>>

NextResolve == CallResolve \/ CallFlatten

SpecResolve == InitResolve /\ [][NextResolve]_vars

NextValues == CallResolve

SpecValues == InitValues /\ [][NextValues]_vars

-----------------------------------------------------------------------------
(* Claims about the resolver *)

IsOutput(x) == x # NotRun /\ x # Raised

\* the input is a filter list tagged yes, flat or singly nested, of
\* well-formed predicates
IsFilterList(g) ==
    /\ g # NotRun
    /\ g.tag = T_yes
    /\ g.shape \in {"flat", "nested"}
    /\ \A i \in 1..Len(g.preds) : WellFormed(g.preds[i])

\* C3: for a filter list in the flat or the singly-nested shape, the output
\* of fuzzy_match_filters is the flat tagged list, one predicate per input
\* predicate, each with the table and column of the input predicate it comes
\* from; only the value field may differ.
C3_FlatShapeSameColumns ==
    (IsOutput(matched) /\ IsFilterList(given)) =>
        /\ IsList(matched)
        /\ Len(matched.v) = 1 + Len(given.preds)
        /\ IsStrOf(matched.v[1], T_yes)
        /\ \A i \in 1..Len(given.preds) :
               LET o == matched.v[i + 1]
                   p == given.preds[i]
               IN  /\ IsList(o) /\ Len(o.v) = 3
                   /\ o.v[1] = p.v[1]
                   /\ o.v[2] = p.v[2]
                   /\ IsStr(o.v[3])

\* C3 witness: a nested list of two predicates was resolved, and the value
\* of the first one was rewritten while its table and column stayed.
C3_Witness ==
    /\ IsOutput(matched) /\ IsFilterList(given)
    /\ given.shape = "nested" /\ Len(given.preds) = 2
    /\ matched.v[2].v[3] # given.preds[1].v[3]
    /\ matched.v[2].v[1] = given.preds[1].v[1]
    /\ matched.v[2].v[2] = given.preds[1].v[2]

\* C6: for a non-empty sequence of predicates, the nested form and the flat
\* form are both normalized by _flatten_filters_structure to the flat list
\* of the tag followed by the predicates, also for a single predicate.
C6_BothShapesFlatten ==
    (flat # NotRun /\ IsFilterList(given) /\ given.preds # <<>>) =>
        flat = PyList(<<PyStr(T_yes)>> \o given.preds)

\* C6 witness: the nested form of a single predicate was flattened.
C6_Witness ==
    /\ flat # NotRun /\ IsFilterList(given)
    /\ given.shape = "nested" /\ Len(given.preds) = 1
    /\ flat = PyList(<<PyStr(T_yes), given.preds[1]>>)
    /\ flat # filters

\* the value of the single predicate of the input, and of the output
GivenValue == given.preds[1].v[3].v
MatchedValue == matched.v[2].v[3].v

\* C4: a categorical predicate whose value already equals one of the
\* distinct values of its column comes back unchanged, whatever the content
\* and the order of the distinct values, under either scorer.
C4_KnownValueUnchanged ==
    (/\ IsOutput(matched)
     /\ IsCategorical(Strip(GivenValue))
     /\ \E i \in 1..Len(db) : db[i] = PyStr(GivenValue))
        => MatchedValue = GivenValue

\* the classification as C5 words it: before and after count as words
SaidCategorical(p) ==
    /\ HasAlpha(p)
    /\ ~HasBetweenWord(p) /\ ~HasBeforeAfterWord(p)
    /\ ~HasComparison(p) /\ ~HasIsoDate(p)

\* C5: a predicate is sent to fuzzy resolution (its column is read) if and
\* only if it holds a letter and none of the words between, before, after,
\* no comparison operator and no ISO date.
C5_CategoricalIffSaid ==
    IsOutput(matched) =>
        (SaidCategorical(GivenValue) <=> (\E i \in 1..Len(log) : log[i][1] = "read"))

-----------------------------------------------------------------------------
(* utils.extract_sql and utils.extract_code_block *)

Fence == <<BT, BT, BT>>
T_sql == <<"s", "q", "l">>
T_SQL == <<"S", "Q", "L">>
T_python == <<"p", "y", "t", "h", "o", "n">>
W_select == <<"s", "e", "l", "e", "c", "t">>

\* the match at position i of: fence, an optional tag after blanks (any
\* case), blanks, a lazy group, fence.  With required, the tag must be there.
\* The group, or no match.
TaggedFenceAt(s, i, tag, required) ==
    IF ~OccursAt(s, Fence, i) THEN [found |-> FALSE, group |-> <<>>]
    ELSE
        LET q == SkipWs(s, i + 3)
            hasTag == OccursAt(Fold(s), Fold(tag), q)
            p == SkipWs(s, IF hasTag THEN q + Len(tag) ELSE i + 3)
            j == Find3(s, BT, p)
        IN  IF (required /\ ~hasTag) \/ j = 0
            THEN [found |-> FALSE, group |-> <<>>]
            ELSE [found |-> TRUE, group |-> Sub(s, p, j - 1)]

RECURSIVE TaggedFenceFrom(_, _, _, _)
\* re.search: the leftmost match at or after position i
TaggedFenceFrom(s, i, tag, required) ==
    IF i > Len(s) THEN [found |-> FALSE, group |-> <<>>]
    ELSE LET m == TaggedFenceAt(s, i, tag, required)
         IN  IF m.found THEN m ELSE TaggedFenceFrom(s, i + 1, tag, required)

RECURSIVE AnyFenceFrom(_, _)
\* re.search of: fence, a lazy group, fence
AnyFenceFrom(s, i) ==
    IF i > Len(s) THEN [found |-> FALSE, group |-> <<>>]
    ELSE IF OccursAt(s, Fence, i) /\ Find3(s, BT, i + 3) # 0
        THEN [found |-> TRUE, group |-> Sub(s, i + 3, Find3(s, BT, i + 3) - 1)]
    ELSE AnyFenceFrom(s, i + 1)

RECURSIVE SelectFrom(_, _)
\* re.search of \bselect\b.* (any case, DOTALL): from the first word select
\* to the end
SelectFrom(s, i) ==
    IF i > Len(s) THEN [found |-> FALSE, group |-> <<>>]
    ELSE IF /\ OccursAt(Fold(s), W_select, i)
            /\ (i = 1 \/ s[i - 1] \notin WordChars)
            /\ (i + 6 > Len(s) \/ s[i + 6] \notin WordChars)
        THEN [found |-> TRUE, group |-> Sub(s, i, Len(s))]
    ELSE SelectFrom(s, i + 1)

RECURSIVE RemoveFences(_)
\* s.replace of the fence by nothing
RemoveFences(s) ==
    IF s = <<>> THEN <<>>
    ELSE IF OccursAt(s, Fence, 1) THEN RemoveFences(Sub(s, 4, Len(s)))
    ELSE <<Head(s)>> \o RemoveFences(Tail(s))

\* extract_sql(text_in)
ExtractSql(s) ==
    IF s = <<>> THEN <<>>
    ELSE LET m == TaggedFenceFrom(s, 1, T_sql, FALSE)
             sel == SelectFrom(s, 1)
         IN  IF m.found THEN Strip(m.group)
             ELSE IF sel.found THEN Strip(sel.group)
             ELSE Strip(s)

\* extract_code_block(content, language)
ExtractCodeBlock(s, language) ==
    LET m == TaggedFenceFrom(s, 1, language, TRUE)
        f == AnyFenceFrom(s, 1)
    IN  IF m.found THEN Strip(m.group)
        ELSE IF f.found THEN Strip(f.group)
        ELSE Strip(RemoveFences(s))

-----------------------------------------------------------------------------
(* Specification SpecExtract: both extractors on texts made of prose and   *)
(* fenced blocks                                                           *)

MaxSegs == 2

B_x == <<"x">>
B_select == W_select \o <<SP, "x">>
B_SELECT == <<"S", "E", "L", "E", "C", "T", SP, "x">>

Prose(t) == [kind |-> "prose", tag |-> <<>>, body |-> t]
Block(tag, body) == [kind |-> "block", tag |-> tag, body |-> body]
LoneFence == [kind |-> "fence", tag |-> <<>>, body |-> <<>>]

SegPool ==
    {Prose(B_x), Prose(B_SELECT), LoneFence}
    \cup {Block(tag, body) : tag \in {<<>>, T_sql, T_SQL, T_python},
                             body \in {B_x, B_select}}

\* a segment as text: a block is fence, tag, blank, body, blank, fence
RenderSeg(g) ==
    IF g.kind = "prose" THEN g.body
    ELSE IF g.kind = "fence" THEN Fence
    ELSE Fence \o g.tag \o <<SP>> \o g.body \o <<SP>> \o Fence

RECURSIVE Render(_)
\* the segments, a blank between two of them
Render(gs) ==
    IF gs = <<>> THEN <<>>
    ELSE IF Len(gs) = 1 THEN RenderSeg(gs[1])
    ELSE RenderSeg(gs[1]) \o <<SP>> \o Render(Tail(gs))

InitExtract ==
    /\ segs \in SeqsUpTo(SegPool, MaxSegs)
    /\ raw = Render(segs)
    /\ lang \in {T_sql, T_python}
    /\ sqlOut = NotRun /\ codeOut = NotRun
    /\ IdleParse /\ IdleNorm /\ IdleFilter /\ IdleGraph /\ IdleLoad /\ IdleUi

CallExtractSql ==
    /\ sqlOut = NotRun
    /\ sqlOut' = PyStr(ExtractSql(raw))
    /\ UNCHANGED <<segs, raw, lang, codeOut, parseVars, normVars, filterVars,
                   graphVars, loadVars, uiVars>>

CallExtractCodeBlock ==
    /\ codeOut = NotRun
    /\ codeOut' = PyStr(ExtractCodeBlock(raw, lang))
    /\ UNCHANGED <<segs, raw, lang, sqlOut, parseVars, normVars, filterVars,
                   graphVars, loadVars, uiVars>>

NextExtract == CallExtractSql \/ CallExtractCodeBlock

SpecExtract == InitExtract /\ [][NextExtract]_vars

\* the first block of the text whose tag is the language, any case
BlocksTagged(l) ==
    {i \in 1..Len(segs) : segs[i].kind = "block" /\ Fold(segs[i].tag) = Fold(l)}
FirstTagged(l) ==
    segs[CHOOSE i \in BlocksTagged(l) : \A j \in BlocksTagged(l) : i <= j]
Balanced == \A i \in 1..Len(segs) : segs[i].kind # "fence"

\* C7 (first preference): when the text holds a fenced block tagged with the
\* language asked for, the result is the trimmed content of that block, also
\* when a block with another tag comes earlier; for SQL (extract_sql) and for
\* any language (extract_code_block).
C7_TaggedBlockFirst ==
    /\ (sqlOut # NotRun /\ Balanced /\ BlocksTagged(T_sql) # {}) =>
           sqlOut = PyStr(Strip(FirstTagged(T_sql).body))
    /\ (codeOut # NotRun /\ Balanced /\ BlocksTagged(lang) # {}) =>
           codeOut = PyStr(Strip(FirstTagged(lang).body))

-----------------------------------------------------------------------------
(* agents: the compiled graph START -> subquestion -> column_e -> END *)

NL == "\n"
Txt_u == <<"u">>
Txt_z == <<"z">>
Txt_c == <<"c">>
Txt_d == <<"d">>
Marker == <<"n", "a", "m", "e", SP, "o", "f", SP, "t", "a", "b", "l", "e", ":">>
EmptyList == <<"[", "]">>

\* the knowledgebase: table -> [description, columns]
loaded_dict ==
    [t \in {Txt_t, Txt_u} |-> <<<<"d", "e", "s", "c">>, <<Txt_c, Txt_d>>>>]

RECURSIVE RemoveNewlines(_)
\* .replace of the newline by nothing
RemoveNewlines(cs) ==
    IF cs = <<>> THEN <<>>
    ELSE (IF Head(cs) = NL THEN <<>> ELSE <<Head(cs)>>) \o RemoveNewlines(Tail(cs))

\* a variant in which a lookup never fails
KeyNeverMissing(t) == FALSE

\* loaded_dict[t] raises KeyError
KeyMissing(t) == t \notin DOMAIN loaded_dict

\* _solve_subquestion: the description of every listed table is looked up
SubquestionLookupFails(lst) == \E i \in 1..Len(lst) : KeyMissing(lst[i])

\* _sq_node after the generator answered: raw = answer or the empty list,
\* then parse_nested_list
SqParsed(answer) ==
    LET joined == RemoveNewlines(answer)
    IN  ParseNestedList(IF joined = <<>> THEN EmptyList ELSE joined).val

\* _agent_column_selection after the generator answered: the first bracket
\* match of the answer, or the empty list
AgentColumnSelection(answer) ==
    LET m == BracketScan(RemoveNewlines(answer))
    IN  IF m.found THEN m.group ELSE EmptyList

\* trans_col = parse_nested_list(out_column)
TransCol(answer) == ParseNestedList(AgentColumnSelection(answer)).val

RECURSIVE RowsOf(_, _)
\* the inner loop of _solve_column_selection: a row for every list entry of
\* at least two elements
RowsOf(table_name, trans_col) ==
    IF trans_col = <<>> THEN <<>>
    ELSE LET col_selec == Head(trans_col)
         IN  (IF IsList(col_selec) /\ Len(col_selec.v) >= 2
              THEN <<PyList(<<PyStr(Marker \o table_name)>> \o col_selec.v)>>
              ELSE <<>>)
             \o RowsOf(table_name, Tail(trans_col))

MaxAssign == 3

Pair(a, b) == PyList(<<PyStr(a), PyStr(b)>>)

\* what the sub-question generator may put in its list
AnswerEntries ==
    {Pair(Txt_q, Txt_t), Pair(<<SP, "r", SP>>, Txt_u), Pair(<<>>, Txt_t),
     Pair(Txt_q, Txt_z)}

\* the list as JSON text: double quotes
AsJson(cs) == [i \in DOMAIN cs |-> IF cs[i] = SQ THEN DQ ELSE cs[i]]

\* the answers: the list in Python or in JSON notation, the latter also
\* after a word and over two lines; or nothing at all
SqAnswers ==
    {<<>>} \cup
    UNION {{Repr(PyList(es)),
            <<"x", SP>> \o AsJson(Repr(PyList(es))) \o <<NL>>} :
           es \in SeqsUpTo(AnswerEntries, MaxAssign)}

ColAnswers ==
    {AsJson(Repr(PyList(<<Pair(Txt_c, Txt_r)>>))),
     <<"x", SP>> \o Repr(PyList(<<Pair(Txt_d, Txt_r), PyList(<<PyStr(Txt_c)>>),
                                  Pair(Txt_c, Txt_r)>>)) \o <<NL>>,
     AsJson(Repr(PyList(<<PyList(<<PyStr(Txt_c), PyStr(Txt_r), PyStr(Txt_q)>>),
                          Pair(<<>>, Txt_r)>>))),
     <<"n", "o">>}

\* the parse of every answer, worked out once
SqParsedOf == [answer \in SqAnswers |-> SqParsed(answer)]
TransColOf == [answer \in ColAnswers |-> TransCol(answer)]

\* a variant of the accumulation that puts the newer rows first
AccumulateFront(final_col, rows) == rows \o final_col

\* final_col.append for every row of one assignment
Accumulate(final_col, rows) == final_col \o rows

RECURSIVE ColumnLoop(_, _, _, _, _)
\* the for loop of _solve_column_selection from assignment i on: the rows,
\* the generator calls, whether a lookup failed and at which assignment
ColumnLoop(list_sub, answers, i, final_col, made) ==
    IF i > Len(list_sub)
    THEN [raised |-> FALSE, rows |-> final_col, calls |-> made, at |-> i]
    ELSE LET tab == list_sub[i].v
         IN  IF tab = <<>>
             THEN ColumnLoop(list_sub, answers, i + 1, final_col, made)
             ELSE
                 LET table_name == tab[Len(tab)].v
                     trans_col == TransColOf[answers[i]]
                 IN  IF KeyMissing(table_name)
                     THEN [raised |-> TRUE, rows |-> final_col, calls |-> made,
                           at |-> i]
                     ELSE ColumnLoop(list_sub, answers, i + 1,
                                     Accumulate(final_col,
                                                RowsOf(table_name, trans_col.v)),
                                     Append(made, <<"column", table_name>>))

SolveColumnSelection(list_sub, answers) ==
    ColumnLoop(list_sub, answers, 1, <<>>, <<>>)

-----------------------------------------------------------------------------
(* Specification Spec: one run of the graph, the generators answer freely *)

TableLists == {<<Txt_t>>, <<Txt_t, Txt_u>>, <<Txt_u, Txt_z>>}

\* the decomposition node hands over to the end of the run
SuccessorSkipsColumn(node) ==
    IF node = "START" THEN "subquestion" ELSE "END"

\* the edges of the graph, lines 494-496
Successor(node) ==
    CASE node = "START" -> "subquestion"
      [] node = "subquestion" -> "column_e"
      [] node = "column_e" -> "END"

\* one node of a run: what it read from the state, and whether it returned
Ran(node, read, done) == [node |-> node, read |-> read, done |-> done]

Init ==
    /\ pc = Successor("START")
    /\ table_lst \in TableLists
    /\ reply = <<>> /\ parsed = NotRun
    /\ table_extract = <<>> /\ colReplies = <<>> /\ column_extract = <<>>
    /\ calls = <<>> /\ ran = <<>>
    /\ IdleParse /\ IdleNorm /\ IdleFilter /\ IdleExtract /\ IdleLoad /\ IdleUi

\* node subquestion: _sq_node, the update added to table_extract
SqNode ==
    /\ pc = "subquestion"
    /\ ~SubquestionLookupFails(table_lst)
    /\ \E answer \in SqAnswers :
        /\ reply' = answer
        /\ parsed' = SqParsedOf[answer]
        /\ table_extract' = table_extract \o NormalizeSubquestions(parsed').v
    /\ calls' = Append(calls, <<"subquestion", table_lst>>)
    /\ ran' = Append(ran, Ran("subquestion", table_lst, TRUE))
    /\ pc' = Successor("subquestion")
    /\ UNCHANGED <<table_lst, colReplies, column_extract,
                   parseVars, normVars, filterVars, extractVars, loadVars, uiVars>>

\* node subquestion, a listed table is not in the knowledgebase: KeyError
SqNodeRaises ==
    /\ pc = "subquestion"
    /\ SubquestionLookupFails(table_lst)
    /\ ran' = Append(ran, Ran("subquestion", table_lst, FALSE))
    /\ pc' = "raised"
    /\ UNCHANGED <<table_lst, reply, parsed, table_extract, colReplies,
                   column_extract, calls,
                   parseVars, normVars, filterVars, extractVars, loadVars, uiVars>>

\* node column_e: _column_node, the update added to column_extract
ColumnNode ==
    /\ pc = "column_e"
    /\ \E answers \in [1..Len(table_extract) -> ColAnswers] :
        \E o \in {SolveColumnSelection(table_extract, answers)} :
            /\ ~o.raised
            /\ colReplies' = answers
            /\ column_extract' = column_extract \o o.rows
            /\ calls' = calls \o o.calls
    /\ ran' = Append(ran, Ran("column_e", table_extract, TRUE))
    /\ pc' = Successor("column_e")
    /\ UNCHANGED <<table_lst, reply, parsed, table_extract,
                   parseVars, normVars, filterVars, extractVars, loadVars, uiVars>>

\* node column_e, the table of an assignment is not in the knowledgebase:
\* KeyError after the calls made for the assignments before it
ColumnNodeRaises ==
    /\ pc = "column_e"
    /\ \E answers \in [1..Len(table_extract) -> ColAnswers] :
        \E o \in {SolveColumnSelection(table_extract, answers)} :
            /\ o.raised
            /\ colReplies' = SubSeq(answers, 1, o.at - 1)
            /\ calls' = calls \o o.calls
    /\ ran' = Append(ran, Ran("column_e", table_extract, FALSE))
    /\ pc' = "raised"
    /\ UNCHANGED <<table_lst, reply, parsed, table_extract, column_extract,
                   parseVars, normVars, filterVars, extractVars, loadVars, uiVars>>

Next == SqNode \/ SqNodeRaises \/ ColumnNode \/ ColumnNodeRaises

Spec == Init /\ [][Next]_vars

\* [subq, table] of an entry, both trimmed
Trimmed(e) == Pair(Strip(StrOf(e.v[1])), Strip(StrOf(e.v[2])))

RECURSIVE PickFrom(_, _, _)
\* the entries of es whose index is in S, from index i on, in the order of es
PickFrom(es, i, S) ==
    IF i > Len(es) THEN <<>>
    ELSE (IF i \in S THEN <<Trimmed(es[i])>> ELSE <<>>) \o PickFrom(es, i + 1, S)

Eligible ==
    {i \in 1..Len(parsed.v) : IsList(parsed.v[i]) /\ Len(parsed.v[i].v) >= 2}

\* C9: the assignments the sub-question node returns are a subsequence of
\* the entries parsed from the generator answer: some of the entries, each
\* once, in the order of the answer.
C9_OrderPreserved ==
    parsed # NotRun =>
        \E S \in SUBSET Eligible : table_extract = PickFrom(parsed.v, 1, S)

\* two different assignments survive around an entry that is dropped
C9_Witness ==
    /\ pc = "column_e"
    /\ Len(parsed.v) = 3
    /\ parsed.v[2] = Pair(<<>>, Txt_t)
    /\ table_extract = <<Pair(Txt_q, Txt_t), Pair(Txt_r, Txt_u)>>

RECURSIVE SelectionsFrom(_)
\* the selections of the assignments from index i on, one after the other
SelectionsFrom(i) ==
    IF i > Len(table_extract) THEN <<>>
    ELSE RowsOf(table_extract[i].v[2].v, TransColOf[colReplies[i]].v)
         \o SelectionsFrom(i + 1)

\* C10: at the end of a run column_extract is the concatenation, in
\* assignment index order, of the rows selected for each assignment, each in
\* the order of its answer; rows that repeat across assignments all stay.
C10_ConcatInIndexOrder ==
    pc = "END" => column_extract = SelectionsFrom(1)

\* two assignments to the same table, answered differently, with one row in
\* common: the row is there twice
C10_Witness ==
    /\ pc = "END"
    /\ Len(table_extract) = 2
    /\ table_extract[1] = table_extract[2]
    /\ colReplies[1] # colReplies[2]
    /\ Len(column_extract) = 3
    /\ column_extract[1] = column_extract[3]
    /\ column_extract[1] # column_extract[2]

\* C11: every assignment held in table_extract is a pair whose table is a
\* key of the knowledgebase and whose sub-question is non-empty after
\* trimming, whatever the generator answered.
C11_AssignmentsInCatalog ==
    \A i \in 1..Len(table_extract) :
        /\ IsList(table_extract[i]) /\ Len(table_extract[i].v) = 2
        /\ Strip(table_extract[i].v[1].v) # <<>>
        /\ table_extract[i].v[2].v \in DOMAIN loaded_dict

\* the table a marker names, when it is a marker
IsMarkerOfKey(x) ==
    IsStr(x) /\ \E t \in DOMAIN loaded_dict : x.v = Marker \o t

\* C12: every row of column_extract is a triple of the table marker, a
\* column name and a justification: the marker names a key of the
\* knowledgebase and the two other fields are strings that are non-empty
\* after trimming.
C12_RowsAreTriples ==
    \A i \in 1..Len(column_extract) :
        LET row == column_extract[i]
        IN  /\ IsList(row) /\ Len(row.v) = 3
            /\ IsMarkerOfKey(row.v[1])
            /\ \A f \in 2..3 : IsStr(row.v[f]) /\ Strip(row.v[f].v) # <<>>

\* the assignments whose table is no key of the knowledgebase
MissingAssigned ==
    {i \in 1..Len(table_extract) :
        table_extract[i].v[2].v \notin DOMAIN loaded_dict}

\* C13: a table that is absent from the knowledgebase ends the run with an
\* error at the stage that looks it up.  A listed table: the sub-question
\* node raises before any generator call.  The table of an assignment: the
\* column node raises at that assignment, after the calls for the
\* assignments before it and with no call for it, and column_extract gets
\* nothing.
C13_MissingTableRaises ==
    /\ ((\E i \in 1..Len(table_lst) : table_lst[i] \notin DOMAIN loaded_dict)
        /\ pc # "subquestion") =>
           /\ pc = "raised"
           /\ calls = <<>> /\ table_extract = <<>> /\ column_extract = <<>>
    /\ (MissingAssigned # {} /\ pc \notin {"subquestion", "column_e"}) =>
           LET first == CHOOSE i \in MissingAssigned :
                            \A j \in MissingAssigned : i <= j
           IN  /\ pc = "raised"
               /\ column_extract = <<>>
               /\ Len(calls) = first
               /\ calls[1][1] = "subquestion"
               /\ \A k \in 2..first :
                      calls[k] = <<"column", table_extract[k - 1].v[2].v>>

\* the second of two assignments names an unknown table: the run raised
\* after the call for the first one
C13_Witness ==
    /\ pc = "raised"
    /\ Len(table_extract) = 2
    /\ MissingAssigned = {2}
    /\ Len(calls) = 2

\* the column of the model holds no value: no row, or NULL only
NoCandidates == \A i \in 1..Len(db) : db[i] = PyNone

\* a well-formed filter list on the known column
OnKnownColumn(g) ==
    /\ IsFilterList(g)
    /\ \A i \in 1..Len(g.preds) :
           IsStrOf(g.preds[i].v[1], T_orders) /\ IsStrOf(g.preds[i].v[2], T_status)

\* the value of a predicate as the loop reads it: str(t[2]).strip()
AsRead(p) == Strip(StrOf(p.v[3]))

\* C14 as stated: when the column holds no distinct non-null value, the
\* call returns, the scorer is not called, every predicate is in the output
\* and a categorical predicate keeps its original literal value.
C14_NoCandidatesLiteral ==
    (matched # NotRun /\ OnKnownColumn(given) /\ NoCandidates) =>
        /\ IsOutput(matched)
        /\ \A k \in 1..Len(log) : log[k][1] # "score"
        /\ Len(matched.v) = 1 + Len(given.preds)
        /\ \A i \in 1..Len(given.preds) :
               IsCategorical(AsRead(given.preds[i])) =>
                   matched.v[i + 1].v[3] = given.preds[i].v[3]

\* C14 amended: the same, the categorical predicate keeping its value as
\* trimmed text.
C14_NoCandidatesTrimmed ==
    (matched # NotRun /\ OnKnownColumn(given) /\ NoCandidates) =>
        /\ IsOutput(matched)
        /\ \A k \in 1..Len(log) : log[k][1] # "score"
        /\ Len(matched.v) = 1 + Len(given.preds)
        /\ \A i \in 1..Len(given.preds) :
               IsCategorical(AsRead(given.preds[i])) =>
                   matched.v[i + 1].v[3] = PyStr(AsRead(given.preds[i]))

\* a NULL-only column was read for a categorical predicate, which came
\* back, followed by the next predicate
C14_Witness ==
    /\ IsOutput(matched) /\ OnKnownColumn(given)
    /\ db = <<PyNone>>
    /\ Len(given.preds) = 2
    /\ given.preds[1].v[3] = PyStr(V_a)
    /\ log = <<<<"read", PyStr(T_orders), PyStr(T_status)>>>>
    /\ matched.v[2].v[3] = PyStr(V_a)
    /\ Len(matched.v) = 3


-----------------------------------------------------------------------------
(* Loading the catalog: agents.py lines 385-406 with config.py lines 40-68.  *)
(* A path is a name; two of the three paths may be the same file (with no    *)
(* KNOWLEDGEBASE_PATH in the environment the configured path is the one      *)
(* beside the code).  A file is missing, a catalog pickle, or something that *)
(* open or pickle.load rejects with an error other than FileNotFoundError.   *)

Files == {"p1", "p2", "p3"}

FileStates == {"missing", "catalog", "unreadable"}

\* the dictionary unpickled from the file at path p
CatalogAt(p) == [k |-> "dict", v |-> p]

\* FileNotFoundError of line 404, with the paths its message names
NotFound(names) == [k |-> "FileNotFoundError", v |-> names]

\* any other exception of open or pickle.load, at path p
LoadError(p) == [k |-> "OtherError", v |-> <<p>>]

LoadResult(o, d, e) == [opened |-> o, kb |-> d, err |-> e]

\* the fallbacks in the opposite order
CandidatesCodeFirst(cwd, code) == <<code, cwd>>

\* candidates, lines 391-394
Candidates(cwd, code) == <<cwd, code>>

\* get_knowledgebase_path, config.py lines 65-68
GetKnowledgebasePath(configured) == configured

\* the for loop of lines 395-406, from candidate i on
RECURSIVE TryCandidates(_, _, _, _, _)
TryCandidates(cands, i, files, tried, path) ==
    IF i > Len(cands)
    THEN LoadResult(tried, NotRun, NotFound(<<path>> \o cands))
    ELSE IF files[cands[i]] = "missing"
         THEN TryCandidates(cands, i + 1, files, Append(tried, cands[i]), path)
         ELSE IF files[cands[i]] = "catalog"
              THEN LoadResult(Append(tried, cands[i]), CatalogAt(cands[i]), NotRun)
              ELSE LoadResult(Append(tried, cands[i]), NotRun, LoadError(cands[i]))

\* lines 385-406
LoadCatalog(configured, cwd, code, files) ==
    LET path == GetKnowledgebasePath(configured) IN
    IF files[path] = "missing"
    THEN TryCandidates(Candidates(cwd, code), 1, files, <<path>>, path)
    ELSE IF files[path] = "catalog"
         THEN LoadResult(<<path>>, CatalogAt(path), NotRun)
         ELSE LoadResult(<<path>>, NotRun, LoadError(path))

\* reads of loaded_dict one process makes after the load
MaxLookups == 2

InitLoad ==
    /\ kbPath \in Files /\ cwdPath \in Files /\ codePath \in Files
    /\ fs \in [Files -> FileStates]
    /\ opened = <<>> /\ kb = NotRun /\ loadErr = NotRun /\ lookups = 0
    /\ IdleParse /\ IdleNorm /\ IdleFilter /\ IdleExtract /\ IdleGraph /\ IdleUi

\* module import: the load runs once
Load ==
    /\ opened = <<>>
    /\ \E r \in {LoadCatalog(kbPath, cwdPath, codePath, fs)} :
          /\ opened' = r.opened
          /\ kb' = r.kb
          /\ loadErr' = r.err
    /\ UNCHANGED <<kbPath, cwdPath, codePath, fs, lookups>>
    /\ UNCHANGED <<parseVars, normVars, filterVars, extractVars, graphVars, uiVars>>

\* a stage subscripts loaded_dict (lines 438 and 472): a read
StageReads ==
    /\ kb # NotRun
    /\ lookups < MaxLookups
    /\ lookups' = lookups + 1
    /\ UNCHANGED <<kbPath, cwdPath, codePath, fs, opened, kb, loadErr>>
    /\ UNCHANGED <<parseVars, normVars, filterVars, extractVars, graphVars, uiVars>>

NextLoad == Load \/ StageReads

SpecLoad == InitLoad /\ [][NextLoad]_vars

\* the three paths in the order the claim gives
SearchOrder == <<kbPath, cwdPath, codePath>>

FirstExisting ==
    IF \E i \in 1..3 : fs[SearchOrder[i]] # "missing"
    THEN CHOOSE i \in 1..3 : /\ fs[SearchOrder[i]] # "missing"
                             /\ \A j \in 1..(i - 1) : fs[SearchOrder[j]] = "missing"
    ELSE 0

LoadedFromFirst ==
    opened # <<>> =>
       IF FirstExisting = 0
       THEN /\ opened = SearchOrder
            /\ kb = NotRun
            /\ loadErr = NotFound(SearchOrder)
       ELSE /\ opened = SubSeq(SearchOrder, 1, FirstExisting)
            /\ fs[SearchOrder[FirstExisting]] = "catalog"
                 => kb = CatalogAt(SearchOrder[FirstExisting]) /\ loadErr = NotRun
            /\ fs[SearchOrder[FirstExisting]] = "unreadable"
                 => kb = NotRun /\ loadErr = LoadError(SearchOrder[FirstExisting])

\* C15: the load opens the configured path, then the one in the working
\* directory, then the one beside the code, stops at the first that exists and
\* takes the catalog from it; when none exists it ends in a FileNotFoundError
\* naming all three; once loaded, no step of a stage changes the catalog.
C15_LoadOrderAndReadOnly ==
    /\ []LoadedFromFirst
    /\ [][kb # NotRun => kb' = kb]_vars

\* the configured file is missing, the working directory has none either, the
\* catalog came from beside the code and a stage has read it since
C15_Witness ==
    /\ opened = <<kbPath, cwdPath, codePath>>
    /\ cwdPath # codePath /\ kbPath # codePath
    /\ fs[cwdPath] = "missing" /\ fs[codePath] = "catalog"
    /\ kb = CatalogAt(codePath)
    /\ lookups > 0


-----------------------------------------------------------------------------
(* The order of the nodes in one run of the graph.                           *)

RanNodes == [i \in 1..Len(ran) |-> ran[i].node]

\* the assignments the decomposition node returned: the state starts with no
\* assignments, so they are what table_extract holds once it has returned
Decomposed == NormalizeSubquestions(parsed).v

\* C16: the nodes of a run start one after the other, decomposition first and
\* column selection second, neither twice; column selection starts only after
\* decomposition has returned, and reads the assignments decomposition wrote;
\* a run has ended exactly when column selection has returned, both nodes
\* having run once.  A node that raises is the last one of its run.
C16_StrictlySequential ==
    /\ \E n \in 0..2 : RanNodes = SubSeq(<<"subquestion", "column_e">>, 1, n)
    /\ \A i \in 1..Len(ran) : ~ran[i].done => (i = Len(ran) /\ pc = "raised")
    /\ pc = "subquestion" <=> ran = <<>>
    /\ pc = "column_e" <=> (Len(ran) = 1 /\ ran[1].done)
    /\ pc = "END" <=> (Len(ran) = 2 /\ ran[2].done)
    /\ Len(ran) >= 1 => ran[1].read = table_lst
    /\ Len(ran) = 2 => /\ ran[1].done
                       /\ ran[2].read = Decomposed
                       /\ ran[2].read = table_extract

\* a run that has ended after column selection read two assignments
C16_Witness ==
    /\ pc = "END"
    /\ RanNodes = <<"subquestion", "column_e">>
    /\ Len(ran[2].read) = 2
    /\ column_extract # <<>>


-----------------------------------------------------------------------------
(* More claims about the resolver *)

\* C17: no predicate of the output of fuzzy_match_filters has an empty value
\* field, also when the value field of the input is empty or only blanks.
C17_NoEmptyValue ==
    IsOutput(matched) =>
        \A i \in 2..Len(matched.v) : matched.v[i].v[3].v # <<>>


\* the input is returned as it is: not a list, an empty list, or tagged no
IsSentinel(g) == g.shape \in {"empty", "none"} \/ g.tag = T_no

\* the predicates of the input as the generator wrote them; a nested list
\* that is not tagged yes, or holds a non-list, stays one entry
GivenEntries(g) ==
    IF g.shape = "flat" THEN g.preds
    ELSE IF /\ g.tag = T_yes /\ g.preds # <<>>
            /\ \A i \in 1..Len(g.preds) : IsList(g.preds[i])
         THEN g.preds
         ELSE <<PyList(g.preds)>>

RECURSIVE ExpectedReads(_)
\* one read, of its table and column, for each entry of at least three
\* fields whose value holds a letter and is not a range, a comparison or a
\* date; in the order of the entries
ExpectedReads(es) ==
    IF es = <<>> THEN <<>>
    ELSE (IF /\ IsList(Head(es)) /\ Len(Head(es).v) >= 3
             /\ HasAlpha(Strip(StrOf(Head(es).v[3])))
             /\ ~IsRangeLike(Strip(StrOf(Head(es).v[3])))
          THEN <<<<"read", Head(es).v[1], Head(es).v[2]>>>>
          ELSE <<>>) \o ExpectedReads(Tail(es))

IsRead(e) == e[1] = "read"

ReadsDone == SelectSeq(log, IsRead)

\* C18: one call of fuzzy_match_filters reads the database once for each
\* categorical predicate of its input, in the order of the predicates, and
\* for nothing else; on the sentinel it reads nothing and returns its input.
\* A call that a read makes raise has made the reads up to that one.
C18_OneReadPerCategorical ==
    matched # NotRun =>
        IF IsSentinel(given)
        THEN matched = filters /\ log = <<>>
        ELSE LET want == ExpectedReads(GivenEntries(given))
             IN  /\ IsOutput(matched) => ReadsDone = want
                 /\ matched = Raised =>
                        /\ ReadsDone # <<>>
                        /\ Len(ReadsDone) <= Len(want)
                        /\ ReadsDone = SubSeq(want, 1, Len(ReadsDone))

\* a comparison and then a categorical value: one read, for the second
C18_Witness ==
    /\ IsOutput(matched)
    /\ given.tag = T_yes
    /\ Len(given.preds) = 2
    /\ given.preds[1] = Pred(T_orders, T_status, PyStr(V_ge5))
    /\ given.preds[2] = Pred(T_orders, T_status, PyStr(V_bPadded))
    /\ ReadsDone = <<<<"read", PyStr(T_orders), PyStr(T_status)>>>>


\* the input is a non-empty list whose first element is not no
IsTaggedList(g) == g.shape \in {"flat", "nested"} /\ g.tag # T_no

RECURSIVE Accepted(_)
\* the entries of es that are lists of at least three fields, in order
Accepted(es) ==
    IF es = <<>> THEN <<>>
    ELSE (IF IsList(Head(es)) /\ Len(Head(es).v) >= 3 THEN <<Head(es)>> ELSE <<>>)
         \o Accepted(Tail(es))

\* the value x is the tag yes followed by one predicate of three fields for
\* each entry of es, with the table and the column of that entry
IsYesThenOnePerEntry(x, es) ==
    /\ IsList(x)
    /\ Len(x.v) = 1 + Len(es)
    /\ x.v[1] = PyStr(T_yes)
    /\ \A i \in 1..Len(es) :
          /\ IsList(x.v[i + 1]) /\ Len(x.v[i + 1].v) = 3
          /\ x.v[i + 1].v[1] = es[i].v[1]
          /\ x.v[i + 1].v[2] = es[i].v[2]
          /\ IsStr(x.v[i + 1].v[3])

\* C19 as stated: a call on a non-empty list not tagged no returns yes
\* followed by one predicate of three fields for each entry of the input (the
\* elements after the tag) that is a list of at least three fields, in order.
C19_OnePerInputEntry ==
    (IsOutput(matched) /\ IsTaggedList(given)) =>
        IsYesThenOnePerEntry(matched, Accepted(Tail(filters.v)))

\* C19: a call on a non-empty list not tagged no that returns, returns yes
\* followed by one predicate of three fields for each entry that is a list of
\* at least three fields, in order, where the entries are those of the list
\* after a singly nested list tagged yes has been flattened; the other
\* entries are dropped, and fields after the third are left out.
C19_OnePerFlattenedEntry ==
    (IsOutput(matched) /\ IsTaggedList(given)) =>
        IsYesThenOnePerEntry(matched, Accepted(GivenEntries(given)))

\* a nested list of an entry of four fields and an entry of two: one
\* predicate of three fields comes back
C19_Witness ==
    /\ IsOutput(matched)
    /\ given.tag = T_yes /\ given.shape = "nested"
    /\ Len(given.preds) = 2
    /\ IsList(given.preds[1]) /\ Len(given.preds[1].v) = 4
    /\ IsList(given.preds[2]) /\ Len(given.preds[2].v) = 2
    /\ Len(matched.v) = 2
    /\ Len(matched.v[2].v) = 3


-----------------------------------------------------------------------------
(* The front end: streamlit_chat.py lines 24-61.  Streamlit runs the script  *)
(* from the top once when the session opens and again on every widget        *)
(* event; st.button is true only in the run its click started.  run_full,   *)
(* of nlq_to_viz_workflow, is a call that returns a result or raises.        *)

\* the session has no key last_state yet
KeyAbsent == [k |-> "absent", v |-> <<>>]

\* what the user may have in the text input
Questions == {<<>>, <<SP>>, <<"q">>, <<SP, "q", SP>>}

\* values of the number input of lines 33-40
Retries == {0, 3}

\* the value of the nth call of run_full
RunFull(q, r, n) == [k |-> "dict", v |-> <<q, r, n>>]

IsResult(x) == x.k = "dict"

\* a variant that tests the question without trimming it
IsEmptyText(q) == q = <<>>

\* not question.strip(), line 49
IsBlank(q) == Strip(q) = <<>>

\* lines 44-45
EnsureKey(ls) == IF ls = KeyAbsent THEN PyNone ELSE ls

\* script runs in one session
MaxReruns == 4

InitUi ==
    /\ last_state = KeyAbsent
    /\ question = <<>> /\ clicked = "idle"
    /\ invoked = <<>> /\ rendered = NotRun /\ reruns = 0
    /\ IdleParse /\ IdleNorm /\ IdleFilter /\ IdleExtract /\ IdleGraph /\ IdleLoad

\* the first run of the script in a session: no widget has been clicked
FirstRun ==
    /\ reruns = 0
    /\ reruns' = 1
    /\ clicked' = "none"
    /\ question' = <<>>
    /\ last_state' = EnsureKey(last_state)
    /\ rendered' = last_state'
    /\ UNCHANGED invoked
    /\ UNCHANGED <<parseVars, normVars, filterVars, extractVars, graphVars, loadVars>>

\* a run started by an edit of the text or of the number input
Rerun ==
    /\ reruns >= 1 /\ reruns < MaxReruns
    /\ reruns' = reruns + 1
    /\ clicked' = "none"
    /\ question' \in Questions
    /\ last_state' = EnsureKey(last_state)
    /\ rendered' = last_state'
    /\ UNCHANGED invoked
    /\ UNCHANGED <<parseVars, normVars, filterVars, extractVars, graphVars, loadVars>>

\* a run started by a click on a download button, which is there only when
\* a result was rendered
DownloadClick ==
    /\ reruns >= 1 /\ reruns < MaxReruns
    /\ IsResult(rendered)
    /\ reruns' = reruns + 1
    /\ clicked' = "download"
    /\ last_state' = EnsureKey(last_state)
    /\ rendered' = last_state'
    /\ UNCHANGED <<question, invoked>>
    /\ UNCHANGED <<parseVars, normVars, filterVars, extractVars, graphVars, loadVars>>

\* a run started by a click on Run, lines 48-54, run_full returning
RunClick ==
    /\ reruns >= 1 /\ reruns < MaxReruns
    /\ reruns' = reruns + 1
    /\ clicked' = "run"
    /\ question' \in Questions
    /\ IF IsBlank(question')
       THEN /\ last_state' = EnsureKey(last_state)
            /\ UNCHANGED invoked
       ELSE \E r \in Retries :
            /\ invoked' = Append(invoked, <<question', r>>)
            /\ last_state' = RunFull(question', r, Len(invoked'))
    /\ rendered' = last_state'
    /\ UNCHANGED <<parseVars, normVars, filterVars, extractVars, graphVars, loadVars>>

\* a run started by a click on Run in which run_full raises: the script run
\* ends there, the assignment of line 54 and the rendering are not reached
RunClickRaises ==
    /\ reruns >= 1 /\ reruns < MaxReruns
    /\ reruns' = reruns + 1
    /\ clicked' = "run"
    /\ question' \in Questions
    /\ ~IsBlank(question')
    /\ \E r \in Retries : invoked' = Append(invoked, <<question', r>>)
    /\ last_state' = EnsureKey(last_state)
    /\ rendered' = Raised
    /\ UNCHANGED <<parseVars, normVars, filterVars, extractVars, graphVars, loadVars>>

NextUi == FirstRun \/ Rerun \/ DownloadClick \/ RunClick \/ RunClickRaises

SpecUi == InitUi /\ [][NextUi]_vars

\* the question of the latest run is not empty once trimmed
Asked == Strip(question') # <<>>

\* one script run, as the claim has it
RunKeepsOrReplaces ==
    /\ reruns = 0 => last_state' = PyNone /\ invoked' = invoked
    /\ (reruns > 0 /\ last_state' # last_state) =>
           /\ clicked' = "run" /\ Asked
           /\ Len(invoked') = Len(invoked) + 1
    /\ (clicked' = "run" /\ ~Asked) =>
           /\ last_state' = last_state /\ invoked' = invoked
           /\ rendered' = last_state
    /\ (reruns > 0 /\ clicked' # "run") =>
           /\ last_state' = last_state /\ invoked' = invoked
           /\ rendered' = last_state

\* C20: last_state is none from the first script run until Run is clicked
\* with a question that is not blank; a script run changes it only then; a
\* Run click with a blank question does not call the pipeline and a run
\* without a Run click does not either, and both leave last_state as it was
\* and render from it.
C20_LastStateKept ==
    /\ [](invoked = <<>> => last_state \in {KeyAbsent, PyNone})
    /\ [](reruns = 0 <=> last_state = KeyAbsent)
    /\ [][RunKeepsOrReplaces]_vars

\* a result was stored, then Run was clicked on a blank question, then a
\* download was clicked: the first result is still the one rendered
C20_Witness ==
    /\ reruns = 4
    /\ clicked = "download"
    /\ Len(invoked) = 1
    /\ question = <<SP>>
    /\ IsResult(last_state)
    /\ last_state = RunFull(<<SP, "q", SP>>, 3, 1)
    /\ rendered = last_state

=============================================================================
